---- MODULE Spec2Model ----
(***************************************************************************)
(* Model of bin-installer.py: the self-installing bootstrapper of the      *)
(* NordVPN GUI.  One process pass through main() is modelled step by step: *)
(* the mode controller, Build mode (check_and_compile), Install mode (the  *)
(* staging sequence of main) and Launch mode (start_app_and_close).        *)
(***************************************************************************)
EXTENDS Integers, Sequences, FiniteSets, TLC

(***************************************************************************)
(* Bounds of the model.                                                    *)
(***************************************************************************)
MaxManifest == 2
MaxToolRuns == 3

None == "None"
Packages == {"p", "q"}
Versions == {"1.0", "2.0"}

(***************************************************************************)
(* Program constants.                                                      *)
(***************************************************************************)
DoCompileInit == 3

LayoutFiles == {"bin", "icon", "desktop", "menu", "installer", "uninstaller", "marker"}
Absent == "absent"

(***************************************************************************)
(* Text handling: a string is a sequence of one-character strings.         *)
(***************************************************************************)
Whitespace == {" ", "\n", "\t"}

RECURSIVE lstrip(_)
lstrip(s) ==
    IF s = <<>> THEN <<>>
    ELSE IF Head(s) \in Whitespace THEN lstrip(Tail(s)) ELSE s

RECURSIVE rstrip(_)
rstrip(s) ==
    IF s = <<>> THEN <<>>
    ELSE IF s[Len(s)] \in Whitespace THEN rstrip(SubSeq(s, 1, Len(s) - 1)) ELSE s

strip(s) == rstrip(lstrip(s))

lowerChar(c) ==
    CASE c = "Y" -> "y"
      [] c = "N" -> "n"
      [] c = "E" -> "e"
      [] c = "S" -> "s"
      [] OTHER -> c

lower(s) == [i \in 1..Len(s) |-> lowerChar(s[i])]

\* What the user does at the prompt: nothing until the timeout, or a line.
TimedOut == [ready |-> FALSE, line |-> <<>>]
Answered(l) == [ready |-> TRUE, line |-> l]
Lines ==
    { <<"y", "\n">>, <<" ", "Y", " ", "\n">>, <<"n", "\n">>, <<"y", "e", "s", "\n">>,
      <<"\n">>, <<>> }
PromptInputs == {TimedOut} \cup {Answered(l) : l \in Lines}

\* Variant: the timeout answers "y".
timed_input_DefaultYes(inp) == IF inp.ready THEN strip(inp.line) ELSE <<"y">>

timed_input(inp) == IF inp.ready THEN strip(inp.line) ELSE <<"n">>

(***************************************************************************)
(* The dependency manifest and the build environment's package tool.       *)
(* A manifest line is its token sequence: <<name>> or <<name, "==", ver>>. *)
(***************************************************************************)
DependencyLines ==
    {<<p>> : p \in Packages} \cup {<<p, "==", v>> : p \in Packages, v \in Versions}

Manifests == UNION {[1..n -> DependencyLines] : n \in 0..MaxManifest}

Environments == [Packages -> Versions \cup {None}]

\* The requirements.txt of the whole-program specification.
ProgramManifests == { << <<"p", "==", "1.0">>, <<"q">> >> }

base_package(dependency) == dependency[1]

\* Variant: the version is taken from the wrong field of the split.
specified_version_WrongField(dependency) ==
    IF \E i \in 1..Len(dependency) : dependency[i] = "==" THEN dependency[2] ELSE None

specified_version(dependency) ==
    IF \E i \in 1..Len(dependency) : dependency[i] = "==" THEN dependency[3] ELSE None

\* pip show: fails for a package that is not installed, else prints its metadata.
PipShow(e, package_name) ==
    IF e[package_name] = None
    THEN [returncode |-> 1, stdout |-> <<>>]
    ELSE [returncode |-> 0,
          stdout |-> << [key |-> "Name", val |-> package_name],
                        [key |-> "Version", val |-> e[package_name]] >>]

RECURSIVE FirstVersionLine(_)
FirstVersionLine(lines) ==
    IF lines = <<>> THEN None
    ELSE IF Head(lines).key = "Version" THEN Head(lines).val
    ELSE FirstVersionLine(Tail(lines))

\* Variant: the return code of pip show is not looked at and no line matches.
get_installed_version_NeverFound(e, package_name) ==
    LET result == PipShow(e, package_name)
    IN  IF result.returncode # 0 THEN None ELSE FirstVersionLine(<<>>)

get_installed_version(e, package_name) ==
    LET result == PipShow(e, package_name)
    IN  IF result.returncode # 0 THEN None ELSE FirstVersionLine(result.stdout)

\* pip install <name>[==<ver>]: a failed call leaves the environment as it was; a
\* successful pinned call leaves the pinned version; a successful unpinned call
\* keeps an installed package and installs the latest release otherwise.
PipInstall(e, name, ver, ok, latest) ==
    IF ~ok THEN e
    ELSE IF ver # None THEN [e EXCEPT ![name] = ver]
    ELSE IF e[name] # None THEN e
    ELSE [e EXCEPT ![name] = latest]

\* Variant: a pinned entry is reinstalled even when the versions match.
NeedsInstall_PinnedAlways(installed_version, spec_version) ==
    IF installed_version # None
    THEN spec_version # None
    ELSE TRUE

\* The decision of install_dependencies for one manifest entry.
NeedsInstall(installed_version, spec_version) ==
    IF installed_version # None
    THEN IF spec_version # None
         THEN installed_version # spec_version
         ELSE FALSE
    ELSE TRUE

\* Variant: no fallback.
NeedsFallback_Never(ok) == FALSE

\* The fallback of install_dependencies after the declared install returned.
NeedsFallback(ok) == ~ok

(***************************************************************************)
(* State.                                                                  *)
(***************************************************************************)
VARIABLES
    proc,          \* running process: "none", "src" (the script), "bin" (the frozen binary)
    pc,            \* position of the running process
    argv,          \* sys.argv[1:] of the source process and of the binary, as token sets
    exe,           \* where sys.executable of the frozen binary lives: "cwd" or "install"
    parent,        \* TRUE while a source process waits in subprocess.run for the binary
    childStatus,   \* return code of the re-invoked binary, as the parent sees it
    status,        \* exit status of the invocation: "running", "exit0", "exit1", "killed"
    trace,         \* steps performed since the invocation started
    stdin,         \* what the user did at the prompt of this invocation
    installDir,    \* INSTALL_DIR exists
    fs,            \* contents of the InstallationLayout files
    wd,            \* working directory: required inputs, venv, dist/ and ./ artifact
    manifest,      \* requirements.txt, parsed
    env,           \* installed version of each package in the build environment
    idx,           \* install_dependencies: index of the next entry
    log,           \* install_dependencies: per entry, what was seen and which installs ran
    envStart,      \* install_dependencies: the environment when the run began
    prevRun,       \* the run before this one: "none", "satisfied" (no install issued),
                   \* "installed" (every declared install succeeded), "failed"
    toolOutcomes,  \* what the build tool would answer on its 1st, 2nd, ... invocation
    do_compile,    \* compile_application: loop variable
    returncode,    \* compile_application: result.returncode of the last attempt
    attempts       \* compile_application: build tool invocations so far

vars == << proc, pc, argv, exe, parent, childStatus, status, trace, stdin, installDir,
           fs, wd, manifest, env, idx, log, envStart, prevRun, toolOutcomes, do_compile,
           returncode, attempts >>

procVars == << proc, pc, argv, exe, parent, childStatus, status, trace, stdin >>
diskVars == << installDir, fs, wd >>
reconVars == << env, idx, log, envStart, prevRun >>
buildVars == << toolOutcomes, do_compile, returncode, attempts >>

Init ==
    /\ proc = "none"
    /\ pc = "idle"
    /\ argv = [src |-> {}, bin |-> {}]
    /\ exe = "cwd"
    /\ parent = FALSE
    /\ childStatus = "none"
    /\ status = "none"
    /\ trace = <<>>
    /\ stdin = TimedOut
    /\ installDir = FALSE
    /\ fs = [f \in LayoutFiles |-> Absent]
    /\ wd = [required |-> TRUE, venv |-> FALSE, dist |-> Absent, dest |-> Absent]
    /\ manifest \in ProgramManifests
    /\ env = [p \in Packages |-> None]
    /\ idx = 1
    /\ log = <<>>
    /\ envStart = env
    /\ prevRun = "none"
    /\ toolOutcomes = [i \in 1..MaxToolRuns |-> TRUE]
    /\ do_compile = 0
    /\ returncode = 0
    /\ attempts = 0


(***************************************************************************)
(* Helpers of the process model.                                           *)
(***************************************************************************)
is_compiled == proc = "bin"

IsFile(f) == fs[f] # Absent

\* RuntimeIdentity as main() derives it.
RuntimeIdentity(compiled, markerIsFile) ==
    IF ~compiled THEN "Source"
    ELSE IF markerIsFile THEN "CompiledInstalled"
    ELSE "CompiledUninstalled"

\* An artifact left by an earlier invocation is stale for the next one.
Age(a) == IF a = Absent THEN Absent ELSE "stale"

\* The running process ends with the given status.  A binary that was started by
\* check_and_compile hands its return code to the waiting source process.
Terminate(code) ==
    IF parent
    THEN /\ proc' = "src"
         /\ pc' = "reinvoke_return"
         /\ childStatus' = code
         /\ parent' = FALSE
         /\ status' = status
    ELSE /\ proc' = "none"
         /\ pc' = "idle"
         /\ childStatus' = childStatus
         /\ parent' = FALSE
         /\ status' = code

Goto(p) ==
    /\ pc' = p
    /\ UNCHANGED << proc, parent, childStatus, status >>

\* Variant: the marker is written before the files are copied.
StageOrder_MarkerEarly ==
    << "create_installation_directory", "save_installed_file", "copy_files",
       "create_desktop_file", "create_un_installer", "finalize_installation" >>

\* The staging sequence of main(), in program order.
StageOrder ==
    << "create_installation_directory", "copy_files", "create_desktop_file",
       "create_un_installer", "save_installed_file", "finalize_installation" >>

StagePos(step) == CHOOSE i \in 1..Len(StageOrder) : StageOrder[i] = step

\* Control leaves a staging step: on to the next one, or main() returns.
StageAdvance(step) ==
    IF StagePos(step) < Len(StageOrder)
    THEN Goto(StageOrder[StagePos(step) + 1])
    ELSE Terminate("exit0")

(***************************************************************************)
(* Invocations.                                                            *)
(***************************************************************************)
ArgSets == SUBSET {"compile", "noopen"}

\* python bin-installer.py [compile] [noopen]
StartSource ==
    /\ proc = "none"
    /\ \E args \in ArgSets, req \in BOOLEAN :
          /\ argv' = [src |-> args, bin |-> {}]
          /\ wd' = [wd EXCEPT !.required = req, !.dist = Age(wd.dist), !.dest = Age(wd.dest)]
    /\ proc' = "src"
    /\ pc' = "main"
    /\ status' = "running"
    /\ trace' = <<>>
    /\ stdin' = TimedOut
    /\ UNCHANGED << exe, parent, childStatus, installDir, fs, manifest, reconVars, buildVars >>

\* ./NordVPN-GUI [noopen] from the working directory, or the installed binary.
StartCompiled ==
    /\ proc = "none"
    /\ \E args \in SUBSET {"noopen"}, loc \in {"cwd", "install"} :
          /\ loc = "cwd" => wd.dest # Absent
          /\ loc = "install" => IsFile("bin")
          /\ argv' = [src |-> {}, bin |-> args]
          /\ exe' = loc
    /\ proc' = "bin"
    /\ pc' = "main"
    /\ status' = "running"
    /\ trace' = <<>>
    /\ stdin' = TimedOut
    /\ UNCHANGED << parent, childStatus, diskVars, manifest, reconVars, buildVars >>

\* The process is killed at its current position.
Crash ==
    /\ proc # "none"
    /\ Terminate("killed")
    /\ idx' = 1
    /\ log' = <<>>
    /\ envStart' = env
    /\ prevRun' = IF pc = "reconcile" THEN "none" ELSE prevRun
    /\ toolOutcomes' = [i \in 1..MaxToolRuns |-> TRUE]
    /\ do_compile' = 0
    /\ returncode' = 0
    /\ attempts' = 0
    /\ UNCHANGED << argv, exe, trace, stdin, diskVars, manifest, env >>

\* uninstall.sh, run by the user while no process is running.
RunUninstaller ==
    /\ proc = "none"
    /\ IsFile("uninstaller")
    /\ fs' = [fs EXCEPT !["desktop"] = Absent, !["menu"] = Absent, !["marker"] = Absent]
    /\ UNCHANGED << procVars, installDir, wd, manifest, reconVars, buildVars >>

\* install.sh, run by the user while no process is running, from the install
\* directory or from the working directory.  touch creates an empty descriptor
\* if there is none; the here-document goes to the unset $FILE_NAME and is lost;
\* the descriptor is copied to the menu; without the marker ./NordVPN-GUI runs.
RunInstaller ==
    /\ proc = "none"
    /\ IsFile("installer")
    /\ LET touched == IF IsFile("desktop") THEN fs["desktop"] ELSE ""
       IN  fs' = [fs EXCEPT !["desktop"] = touched, !["menu"] = touched]
    /\ \E loc \in {"cwd", "install"} :
          LET found == IF loc = "cwd" THEN wd.dest # Absent ELSE IsFile("bin")
          IN  IF ~IsFile("marker") /\ found
              THEN /\ proc' = "bin"
                   /\ pc' = "main"
                   /\ argv' = [src |-> {}, bin |-> {}]
                   /\ exe' = loc
                   /\ status' = "running"
                   /\ trace' = <<>>
                   /\ stdin' = TimedOut
                   /\ UNCHANGED << parent, childStatus >>
              ELSE UNCHANGED procVars
    /\ UNCHANGED << installDir, wd, manifest, reconVars, buildVars >>

(***************************************************************************)
(* Mode Controller: main() up to the choice of the mode.                   *)
(***************************************************************************)
\* The test main() applies to the answer.
Declines(response) == lower(response) # <<"y">>

ModeController ==
    /\ pc = "main"
    /\ LET identity == RuntimeIdentity(is_compiled, IsFile("marker"))
       IN  CASE identity = "Source" ->
                  \E inp \in IF "compile" \in argv.src THEN {TimedOut} ELSE PromptInputs :
                     LET response == IF "compile" \in argv.src THEN <<"y">> ELSE timed_input(inp)
                     IN  /\ trace' = IF "compile" \in argv.src THEN trace
                                     ELSE Append(trace, "prompt")
                         /\ stdin' = inp
                         /\ IF Declines(response)
                            THEN Terminate("exit1")
                            ELSE Goto("check_required_files")
             [] identity = "CompiledInstalled" ->
                  /\ UNCHANGED << trace, stdin >>
                  /\ Goto("start_app_and_close")
             [] OTHER ->
                  /\ UNCHANGED << trace, stdin >>
                  /\ Goto(StageOrder[1])
    /\ UNCHANGED << argv, exe, diskVars, manifest, reconVars, buildVars >>

\* Variant: start_app_and_close returns to main() instead of exiting.
LaunchReturn_FallThrough(imported) ==
    IF imported THEN Goto("create_installation_directory") ELSE Terminate("exit1")

\* Where control goes after the imports of start_app_and_close.
LaunchReturn(imported) == Terminate(IF imported THEN "exit0" ELSE "exit1")

\* Launch mode.
StartAppAndClose ==
    /\ pc = "start_app_and_close"
    /\ trace' = Append(trace, "import main")
    /\ \E imported \in BOOLEAN : LaunchReturn(imported)
    /\ UNCHANGED << argv, exe, stdin, diskVars, manifest, reconVars, buildVars >>

(***************************************************************************)
(* Build mode: check_and_compile().                                        *)
(***************************************************************************)
\* Variant: the list of missing files is not looked at.
MissingFiles_Ignored(w) == FALSE

\* check_required_files: some required file does not exist.
MissingFiles(w) == ~w.required

CheckRequiredFiles ==
    /\ pc = "check_required_files"
    /\ trace' = Append(trace, "check_required_files")
    /\ IF MissingFiles(wd) THEN Terminate("exit1") ELSE Goto("create_virtual_environment")
    /\ UNCHANGED << argv, exe, stdin, diskVars, manifest, reconVars, buildVars >>

\* Variant: the return code of the child process is not checked.
CheckedRun_Unchecked(ok, next) == Goto(next)

\* subprocess.run(..., check=True): a non-zero return code raises
\* CalledProcessError, which nothing catches.
CheckedRun(ok, next) == IF ok THEN Goto(next) ELSE Terminate("exit1")

\* What a call of subprocess.run(..., check=True) adds to the trace.
RunTrace(t, step, ok) ==
    IF ok THEN Append(t, step) ELSE Append(Append(t, step), "CalledProcessError")

CreateVirtualEnvironment ==
    /\ pc = "create_virtual_environment"
    /\ IF ~wd.venv
       THEN \E created \in BOOLEAN :
               /\ trace' = RunTrace(trace, "venv", created)
               /\ wd' = [wd EXCEPT !.venv = created]
               /\ CheckedRun(created, "install_pyinstaller")
       ELSE /\ trace' = trace
            /\ wd' = wd
            /\ Goto("install_pyinstaller")
    /\ UNCHANGED << argv, exe, stdin, installDir, fs, manifest, reconVars, buildVars >>

\* pip install pip setuptools wheel pyinstaller, also with check=True.
InstallPyinstaller ==
    /\ pc = "install_pyinstaller"
    /\ \E installed \in BOOLEAN :
          /\ trace' = RunTrace(trace, "install_pyinstaller", installed)
          /\ CheckedRun(installed, "install_dependencies")
    /\ UNCHANGED << argv, exe, stdin, diskVars, manifest, reconVars, buildVars >>

\* install_dependencies, up to the loop over the manifest.
InstallDependencies ==
    /\ pc = "install_dependencies"
    /\ trace' = Append(trace, "install_dependencies")
    /\ IF wd.required
       THEN /\ idx' = 1
            /\ log' = <<>>
            /\ envStart' = env
            /\ Goto("reconcile")
       ELSE /\ UNCHANGED << idx, log, envStart >>
            /\ Terminate("exit1")
    /\ UNCHANGED << argv, exe, stdin, diskVars, manifest, env, prevRun, buildVars >>

\* Variant: a failed fallback aborts the reconciliation.
AfterEntry_AbortOnFailure(failed) ==
    IF failed THEN Terminate("exit1") ELSE Goto("reconcile")

\* After an entry, whatever its installs answered: "Continuing with the next
\* dependency...".
AfterEntry(failed) == Goto("reconcile")

\* One iteration of the loop: query, decide, install, fall back.
ReconcileEntry ==
    /\ pc = "reconcile"
    /\ idx <= Len(manifest)
    /\ \E ok1 \in BOOLEAN, ok2 \in BOOLEAN, latest \in Versions :
          LET dependency == manifest[idx]
              base == base_package(dependency)
              spec == specified_version(dependency)
              installed_version == get_installed_version(env, base)
              call1 == [role |-> "declared", name |-> base, ver |-> spec, ok |-> ok1]
              env1 == PipInstall(env, base, spec, ok1, latest)
              call2 == [role |-> "fallback", name |-> base, ver |-> None, ok |-> ok2]
              env2 == PipInstall(env1, base, None, ok2, latest)
          IN  IF ~NeedsInstall(installed_version, spec)
              THEN /\ env' = env
                   /\ log' = Append(log, [entry |-> idx, installed |-> env[base],
                                          calls |-> <<>>])
                   /\ AfterEntry(FALSE)
              ELSE IF NeedsFallback(ok1)
              THEN /\ env' = env2
                   /\ log' = Append(log, [entry |-> idx, installed |-> env[base],
                                          calls |-> <<call1, call2>>])
                   /\ AfterEntry(~ok2)
              ELSE /\ env' = env1
                   /\ log' = Append(log, [entry |-> idx, installed |-> env[base],
                                          calls |-> <<call1>>])
                   /\ AfterEntry(FALSE)
    /\ idx' = idx + 1
    /\ UNCHANGED << argv, exe, stdin, trace, diskVars, manifest, envStart, prevRun, buildVars >>

\* Number of install invocations of a run.
RECURSIVE InstallCalls(_)
InstallCalls(l) == IF l = <<>> THEN 0 ELSE Len(Head(l).calls) + InstallCalls(Tail(l))

\* Every declared install the run issued succeeded.
AllDeclaredOk(l) ==
    \A i \in 1..Len(l) : Len(l[i].calls) > 0 => l[i].calls[1].ok

\* "All dependencies processed."  The locals of install_dependencies are gone.
ReconcileDone ==
    /\ pc = "reconcile"
    /\ idx > Len(manifest)
    /\ prevRun' = IF ~AllDeclaredOk(log) THEN "failed"
                  ELSE IF InstallCalls(log) = 0 THEN "satisfied" ELSE "installed"
    /\ idx' = 1
    /\ log' = <<>>
    /\ envStart' = env
    /\ Goto("compile_application")
    /\ UNCHANGED << argv, exe, stdin, trace, diskVars, manifest, env, buildVars >>

\* compile_application, up to the retry loop.
CompileApplication ==
    /\ pc = "compile_application"
    /\ do_compile' = DoCompileInit
    /\ attempts' = 0
    /\ returncode' = 0
    /\ toolOutcomes' \in [1..MaxToolRuns -> BOOLEAN]
    /\ Goto("compile_loop")
    /\ UNCHANGED << argv, exe, stdin, trace, diskVars, manifest, reconVars >>

\* The loop condition of compile_application.
LoopContinues(n) == n > 1

\* One iteration of the retry loop: one invocation of the build tool.  A run that
\* reports success has replaced the output directory (--noconfirm): it holds the
\* new artifact, or none.
CompileAttempt ==
    /\ pc = "compile_loop"
    /\ LoopContinues(do_compile)
    /\ attempts < MaxToolRuns
    /\ attempts' = attempts + 1
    /\ trace' = Append(trace, "pyinstaller")
    /\ IF toolOutcomes[attempts + 1]
       THEN /\ returncode' = 0
            /\ do_compile' = 0
            /\ \E produced \in BOOLEAN :
                  wd' = [wd EXCEPT !.dist = IF produced THEN "fresh" ELSE Absent]
       ELSE /\ returncode' = 1
            /\ do_compile' = do_compile - 1
            /\ wd' = wd
    /\ Goto("compile_loop")
    /\ UNCHANGED << argv, exe, stdin, installDir, fs, manifest, reconVars, toolOutcomes >>

\* Variant: the failure of the build is not noticed.
BuildFailed_Ignored(rc) == FALSE

\* The test after the loop.
BuildFailed(rc) == rc # 0

\* Variant: an artifact already in place is not removed, so nothing is moved.
Relocate_KeepExisting(w) ==
    IF w.dest # Absent THEN w
    ELSE IF w.dist # Absent THEN [w EXCEPT !.dest = w.dist, !.dist = Absent]
    ELSE w

\* Unlink ./NordVPN-GUI, then move dist/NordVPN-GUI there if it is a file.
Relocate(w) ==
    LET unlinked == [w EXCEPT !.dest = Absent]
    IN  IF unlinked.dist # Absent /\ unlinked.dest = Absent
        THEN [unlinked EXCEPT !.dest = unlinked.dist, !.dist = Absent]
        ELSE unlinked

\* After the loop: exit on failure, else move dist/NordVPN-GUI to ./NordVPN-GUI.
\* The locals of compile_application are gone afterwards.
CompileFinish ==
    /\ pc = "compile_loop"
    /\ ~LoopContinues(do_compile)
    /\ IF BuildFailed(returncode)
       THEN /\ trace' = trace
            /\ wd' = wd
            /\ Terminate("exit1")
       ELSE /\ wd' = Relocate(wd)
            /\ trace' = IF wd.dist # Absent THEN Append(trace, "relocate")
                        ELSE IF wd.dest # Absent THEN Append(trace, "unlink dest")
                        ELSE trace
            /\ Goto("after_compile")
    /\ toolOutcomes' = [i \in 1..MaxToolRuns |-> TRUE]
    /\ do_compile' = 0
    /\ returncode' = 0
    /\ attempts' = 0
    /\ UNCHANGED << argv, exe, stdin, installDir, fs, manifest, reconVars >>

\* Variant: the marker is left alone.
UnlinkMarker_Kept(f) == f

\* "After compile the app has to be reinstalled."
UnlinkMarker(f) == [f EXCEPT !["marker"] = Absent]

\* Variant: the binary is run without arguments.
ForwardedArgs_None(a) == {}

\* The arguments check_and_compile passes on to the binary.
ForwardedArgs(a) == a \cap {"noopen"}

\* check_and_compile after the build: delete the marker, run the binary and wait.
Reinvoke ==
    /\ pc = "after_compile"
    /\ fs' = UnlinkMarker(fs)
    /\ LET t1 == IF IsFile("marker") THEN Append(trace, "unlink marker") ELSE trace
       IN  IF wd.dest = Absent
           THEN /\ trace' = t1
                /\ UNCHANGED << argv, exe >>
                /\ Terminate("exit1")
           ELSE /\ trace' = Append(t1, "reinvoke")
                /\ argv' = [argv EXCEPT !.bin = ForwardedArgs(argv.src)]
                /\ exe' = "cwd"
                /\ proc' = "bin"
                /\ pc' = "main"
                /\ parent' = TRUE
                /\ UNCHANGED << childStatus, status >>
    /\ UNCHANGED << stdin, installDir, wd, manifest, reconVars, buildVars >>

\* Variant: check_and_compile returns to main() after the binary succeeded.
AfterReinvoke_Return(cs) ==
    IF cs = "exit0" THEN Goto("create_installation_directory") ELSE Terminate("exit1")

\* subprocess.run(cmd, check=True) returned or raised; sys.exit().
AfterReinvoke(cs) == Terminate(IF cs = "exit0" THEN "exit0" ELSE "exit1")

ReinvokeReturn ==
    /\ pc = "reinvoke_return"
    /\ AfterReinvoke(childStatus)
    /\ UNCHANGED << argv, exe, stdin, trace, diskVars, manifest, reconVars, buildVars >>

(***************************************************************************)
(* Install mode: the staging sequence of main().                           *)
(***************************************************************************)
DesktopContent == "[Desktop Entry] Exec=BIN_PATH Path=INSTALL_DIR Name=NordVPN GUI Icon=ICON_PATH"

CreateInstallationDirectory ==
    /\ pc = "create_installation_directory"
    /\ installDir' = TRUE
    /\ trace' = Append(trace, "create_installation_directory")
    /\ StageAdvance("create_installation_directory")
    /\ UNCHANGED << argv, exe, stdin, fs, wd, manifest, reconVars, buildVars >>

\* The icon comes from the bundle; the binary is a copy of sys.executable, which
\* is gone once BIN_PATH was unlinked when the process runs from BIN_PATH itself.
CopyFiles ==
    /\ pc = "copy_files"
    /\ trace' = Append(trace, "copy_files")
    /\ IF ~installDir
       THEN /\ fs' = fs
            /\ Terminate("exit1")
       ELSE IF exe = "install" /\ IsFile("bin")
       THEN /\ fs' = [fs EXCEPT !["icon"] = "icon.jpg", !["bin"] = Absent]
            /\ Terminate("exit1")
       ELSE /\ fs' = [fs EXCEPT !["icon"] = "icon.jpg", !["bin"] = "binary"]
            /\ StageAdvance("copy_files")
    /\ UNCHANGED << argv, exe, stdin, installDir, wd, manifest, reconVars, buildVars >>

CreateDesktopFile ==
    /\ pc = "create_desktop_file"
    /\ installDir' = TRUE
    /\ fs' = [fs EXCEPT !["desktop"] = DesktopContent, !["menu"] = DesktopContent]
    /\ trace' = Append(trace, "create_desktop_file")
    /\ StageAdvance("create_desktop_file")
    /\ UNCHANGED << argv, exe, stdin, wd, manifest, reconVars, buildVars >>

CreateUnInstaller ==
    /\ pc = "create_un_installer"
    /\ installDir' = TRUE
    /\ fs' = [fs EXCEPT !["installer"] = "install.sh", !["uninstaller"] = "uninstall.sh"]
    /\ trace' = Append(trace, "create_un_installer")
    /\ StageAdvance("create_un_installer")
    /\ UNCHANGED << argv, exe, stdin, wd, manifest, reconVars, buildVars >>

SaveInstalledFile ==
    /\ pc = "save_installed_file"
    /\ installDir' = TRUE
    /\ fs' = [fs EXCEPT !["marker"] = "True"]
    /\ trace' = Append(trace, "save_installed_file")
    /\ StageAdvance("save_installed_file")
    /\ UNCHANGED << argv, exe, stdin, wd, manifest, reconVars, buildVars >>

\* xdg-open runs without check: its outcome does not matter.
FinalizeInstallation ==
    /\ pc = "finalize_installation"
    /\ trace' = IF "noopen" \notin argv.bin
                THEN Append(Append(trace, "finalize_installation"), "xdg-open")
                ELSE Append(trace, "finalize_installation")
    /\ StageAdvance("finalize_installation")
    /\ UNCHANGED << argv, exe, stdin, diskVars, manifest, reconVars, buildVars >>

(***************************************************************************)
(* The program.                                                            *)
(***************************************************************************)
Next ==
    \/ StartSource
    \/ StartCompiled
    \/ Crash
    \/ RunUninstaller
    \/ RunInstaller
    \/ ModeController
    \/ StartAppAndClose
    \/ CheckRequiredFiles
    \/ CreateVirtualEnvironment
    \/ InstallPyinstaller
    \/ InstallDependencies
    \/ ReconcileEntry
    \/ ReconcileDone
    \/ CompileApplication
    \/ CompileAttempt
    \/ CompileFinish
    \/ Reinvoke
    \/ ReinvokeReturn
    \/ CreateInstallationDirectory
    \/ CopyFiles
    \/ CreateDesktopFile
    \/ CreateUnInstaller
    \/ SaveInstalledFile
    \/ FinalizeInstallation

Spec == Init /\ [][Next]_vars

(***************************************************************************)
(* The Dependency Reconciler on its own: install_dependencies applied,     *)
(* build after build, to every manifest and every build environment of     *)
(* the bounds.                                                             *)
(***************************************************************************)
InitRecon ==
    /\ proc = "src"
    /\ pc = "install_dependencies"
    /\ argv = [src |-> {"compile"}, bin |-> {}]
    /\ exe = "cwd"
    /\ parent = FALSE
    /\ childStatus = "none"
    /\ status = "running"
    /\ trace = <<>>
    /\ stdin = TimedOut
    /\ installDir = FALSE
    /\ fs = [f \in LayoutFiles |-> Absent]
    /\ wd = [required |-> TRUE, venv |-> TRUE, dist |-> Absent, dest |-> Absent]
    /\ manifest \in Manifests
    /\ env \in Environments
    /\ idx = 1
    /\ log = <<>>
    /\ envStart = env
    /\ prevRun = "none"
    /\ toolOutcomes = [i \in 1..MaxToolRuns |-> TRUE]
    /\ do_compile = 0
    /\ returncode = 0
    /\ attempts = 0

\* The rest of the build and the next invocation up to install_dependencies:
\* none of it touches the manifest or the packages of the environment.
NextBuild ==
    /\ pc = "compile_application"
    /\ trace' = <<>>
    /\ Goto("install_dependencies")
    /\ UNCHANGED << argv, exe, stdin, diskVars, manifest, reconVars, buildVars >>

NextRecon ==
    \/ InstallDependencies
    \/ ReconcileEntry
    \/ ReconcileDone
    \/ NextBuild

SpecRecon == InitRecon /\ [][NextRecon]_vars


(***************************************************************************)
(* Vocabulary of the properties.                                           *)
(***************************************************************************)
Range(q) == {q[i] : i \in 1..Len(q)}

Performed(step) == step \in Range(trace)

BuildSteps ==
    { "check_required_files", "venv", "install_pyinstaller", "install_dependencies",
      "pyinstaller", "relocate", "unlink dest", "unlink marker", "reinvoke",
      "CalledProcessError" }

StagingSteps ==
    { "create_installation_directory", "copy_files", "create_desktop_file",
      "create_un_installer", "save_installed_file", "finalize_installation", "xdg-open" }

\* The retry loop of compile_application has been left; its locals are still there.
LoopLeft == pc = "compile_loop" /\ ~LoopContinues(do_compile)

\* Index of the first successful invocation among the first n, or n if there is none.
FirstSuccessWithin(outcomes, n) ==
    IF \E i \in 1..n : outcomes[i]
    THEN CHOOSE i \in 1..n : outcomes[i] /\ \A j \in 1..(i - 1) : ~outcomes[j]
    ELSE n

(***************************************************************************)
(* C1: the build tool is invoked until its first success, three times at   *)
(* most: when the retry loop is left, the number of invocations is the     *)
(* index of the first success among the first three outcomes, or 3 if all  *)
(* three fail; after two failures and a success on the third, 3 attempts   *)
(* were made and the build counts as successful.                           *)
(***************************************************************************)
C1_RetryUntilFirstSuccessOfThree ==
    LoopLeft =>
        /\ attempts = FirstSuccessWithin(toolOutcomes, 3)
        /\ (~toolOutcomes[1] /\ ~toolOutcomes[2] /\ toolOutcomes[3])
              => (attempts = 3 /\ returncode = 0)

(***************************************************************************)
(* C3: in Install mode the marker is written after every other staging     *)
(* step and before the file-manager call; until then it is absent, so a    *)
(* pass that died before the marker write leaves the next run of the       *)
(* binary classified CompiledUninstalled.                                  *)
(***************************************************************************)
StagedBeforeMarker ==
    { "create_installation_directory", "copy_files", "create_desktop_file",
      "create_un_installer" }

MarkerPending ==
    /\ proc = "bin"
    /\ pc \in StagedBeforeMarker \cup {"save_installed_file"}

C3_MarkerWrittenLast ==
    /\ \A i \in 1..Len(trace) :
          /\ trace[i] = "save_installed_file"
                => \A st \in StagedBeforeMarker : \E j \in 1..(i - 1) : trace[j] = st
          /\ trace[i] = "xdg-open"
                => \E j \in 1..(i - 1) : trace[j] = "save_installed_file"
    /\ MarkerPending => ~IsFile("marker")
    /\ ( /\ proc = "none"
         /\ status \in {"killed", "exit1"}
         /\ Performed("create_installation_directory")
         /\ ~Performed("save_installed_file") )
          => RuntimeIdentity(TRUE, IsFile("marker")) = "CompiledUninstalled"

C3_Witness ==
    /\ proc = "none"
    /\ status = "killed"
    /\ Performed("create_un_installer")
    /\ ~Performed("save_installed_file")
    /\ IsFile("installer")

(***************************************************************************)
(* C4: when check_and_compile re-invokes the freshly built binary the      *)
(* marker is absent, whether or not it existed before the build; the       *)
(* re-invoked binary takes Install mode, never Launch mode.                *)
(***************************************************************************)
C4_MarkerAbsentAtReinvoke ==
    /\ (parent /\ pc = "main")
          => /\ ~IsFile("marker")
             /\ RuntimeIdentity(is_compiled, IsFile("marker")) = "CompiledUninstalled"
    /\ parent => pc # "start_app_and_close"
    /\ Performed("reinvoke") => ~Performed("import main")

C4_Witness ==
    /\ parent
    /\ pc = "main"
    /\ Performed("unlink marker")

(***************************************************************************)
(* C5: a compiled process that finds the marker hands off to the           *)
(* application and terminates: no staging step runs, no file of the        *)
(* InstallationLayout changes and the file manager is not called.          *)
(***************************************************************************)
InLaunchMode ==
    /\ proc = "bin"
    /\ \/ pc = "main" /\ IsFile("marker")
       \/ pc = "start_app_and_close"

C5_LaunchModeFrame ==
    [][ InLaunchMode =>
           /\ fs' = fs
           /\ installDir' = installDir
           /\ wd' = wd
           /\ proc' = "none" \/ (proc' = "bin" /\ pc' = "start_app_and_close")
           /\ Range(trace') \cap StagingSteps = {} ]_vars

C5_Witness ==
    /\ proc = "none"
    /\ status = "exit0"
    /\ trace = <<"import main">>
    /\ IsFile("marker")
    /\ IsFile("bin")

(***************************************************************************)
(* C6: a source process without the compile token enters Build mode only   *)
(* if the prompt was answered y or Y before the timeout; any other answer  *)
(* and the timeout end it with a non-zero status and no Build-mode or      *)
(* staging step.  With the compile token there is no prompt and Build mode *)
(* is entered.                                                             *)
(***************************************************************************)
YesLine(l) ==
    \E i \in 1..Len(l) :
        /\ l[i] \in {"y", "Y"}
        /\ \A j \in 1..Len(l) : j # i => l[j] \in Whitespace

AnsweredYes == stdin.ready /\ YesLine(stdin.line)

C6_BuildOnlyOnYes ==
    /\ (Performed("prompt") /\ ~AnsweredYes)
          => (proc = "none" /\ status = "exit1" /\ trace = <<"prompt">>)
    /\ (Performed("prompt") /\ AnsweredYes /\ proc = "none" /\ status # "killed")
          => Performed("check_required_files")
    /\ (proc = "src" /\ "compile" \in argv.src) => ~Performed("prompt")
    /\ (proc = "src" /\ "compile" \in argv.src /\ pc # "main")
          => pc \in { "check_required_files", "create_virtual_environment",
                      "install_pyinstaller", "install_dependencies", "reconcile",
                      "compile_application", "compile_loop", "after_compile",
                      "reinvoke_return" }
    /\ (Range(trace) \cap (BuildSteps \cup StagingSteps) # {})
          => (~Performed("prompt") \/ AnsweredYes)

C6_Witness ==
    /\ Performed("prompt")
    /\ ~stdin.ready
    /\ proc = "none"
    /\ status = "exit1"

(***************************************************************************)
(* C7: when every attempt of the retry loop failed, the process ends with  *)
(* a non-zero status; nothing is relocated or deleted in the working       *)
(* directory, the marker is not deleted and the binary is not re-invoked.  *)
(***************************************************************************)
AllAttemptsFailed ==
    /\ LoopLeft
    /\ attempts >= 1
    /\ \A i \in 1..attempts : ~toolOutcomes[i]

C7_BuildFailureExits ==
    [][ AllAttemptsFailed =>
           /\ proc' = "none"
           /\ status' \in {"exit1", "killed"}
           /\ wd' = wd
           /\ fs' = fs
           /\ Range(trace') \cap {"relocate", "unlink dest", "unlink marker", "reinvoke"} = {} ]_vars

C7_Witness ==
    /\ proc = "none"
    /\ status = "exit1"
    /\ trace # <<>>
    /\ trace[Len(trace)] = "pyinstaller"
    /\ IsFile("marker")
    /\ wd.dest = "stale"

(***************************************************************************)
(* Vocabulary of the reconciliation properties.  A manifest line is read   *)
(* here as the manifest format defines it: name, or name==version.         *)
(***************************************************************************)
EntryPackage(d) == d[1]
EntryPin(d) == IF Len(d) = 3 THEN d[3] ELSE None

RunComplete == pc = "reconcile" /\ idx > Len(manifest)

CallsOfRole(r, role) == {c \in 1..Len(r.calls) : r.calls[c].role = role}

\* No package is pinned at two different versions.
NoConflictingPins(m) ==
    \A i \in 1..Len(m), j \in 1..Len(m) :
        (EntryPackage(m[i]) = EntryPackage(m[j]) /\ EntryPin(m[i]) # None /\ EntryPin(m[j]) # None)
            => EntryPin(m[i]) = EntryPin(m[j])

\* Every pinned entry finds its version installed.
SatisfiesPins(e, m) ==
    \A i \in 1..Len(m) : EntryPin(m[i]) # None => e[EntryPackage(m[i])] = EntryPin(m[i])

\* Every entry finds its package installed, at the pinned version if it pins one.
SatisfiesManifest(e, m) ==
    /\ SatisfiesPins(e, m)
    /\ \A i \in 1..Len(m) : e[EntryPackage(m[i])] # None

C8_FallbackOnceIffDeclaredFailed ==
    \A k \in 1..Len(log) :
        LET r == log[k]
            d == manifest[r.entry]
            declaredFailed == \E c \in CallsOfRole(r, "declared") : ~r.calls[c].ok
        IN  /\ Len(r.calls) <= 2
            /\ Cardinality(CallsOfRole(r, "fallback")) = IF declaredFailed THEN 1 ELSE 0
            /\ \A c \in CallsOfRole(r, "fallback") :
                  /\ r.calls[c].name = EntryPackage(d)
                  /\ r.calls[c].ver = None
                  /\ c > 1
                  /\ r.calls[c - 1].role = "declared"
            /\ (EntryPin(d) # None /\ r.installed \notin {None, EntryPin(d)})
                  => /\ Cardinality(CallsOfRole(r, "declared")) = 1
                     /\ r.calls[1].role = "declared"
                     /\ r.calls[1].name = EntryPackage(d)
                     /\ r.calls[1].ver = EntryPin(d)
                     /\ (Len(r.calls) = 2) = ~r.calls[1].ok

C8_Witness ==
    \E k \in 1..Len(log) :
        /\ EntryPin(manifest[log[k].entry]) # None
        /\ log[k].installed \notin {None, EntryPin(manifest[log[k].entry])}
        /\ Len(log[k].calls) = 2
        /\ log[k].calls[2].role = "fallback"

(***************************************************************************)
(* C9: an entry gets its declared install iff its package is not installed *)
(* or is installed at a version other than the pinned one, and then exactly*)
(* once; a pinned entry of a package that is not installed gets one        *)
(* install of the pinned spec and no fallback when that install succeeds;  *)
(* an installed package with no pin or a matching pin gets no install.     *)
(***************************************************************************)
C9_DeclaredInstallIffNeeded ==
    \A k \in 1..Len(log) :
        LET r == log[k]
            d == manifest[r.entry]
            needed == r.installed = None
                         \/ (EntryPin(d) # None /\ EntryPin(d) # r.installed)
            declared == CallsOfRole(r, "declared")
        IN  /\ Cardinality(declared) = IF needed THEN 1 ELSE 0
            /\ \A c \in declared :
                  /\ c = 1
                  /\ r.calls[c].name = EntryPackage(d)
                  /\ r.calls[c].ver = EntryPin(d)
            /\ ~needed => r.calls = <<>>
            /\ (r.installed = None /\ EntryPin(d) # None /\ Len(r.calls) >= 1 /\ r.calls[1].ok)
                  => Len(r.calls) = 1

C9_Witness ==
    \E k \in 1..Len(log) :
        /\ log[k].installed = None
        /\ EntryPin(manifest[log[k].entry]) # None
        /\ Len(log[k].calls) = 1
        /\ log[k].calls[1].ok

(***************************************************************************)
(* C10, as claimed: a run that starts in an environment satisfying every   *)
(* pinned version of the manifest issues no install invocation.            *)
(***************************************************************************)
C10_PinsSatisfiedNoInstalls ==
    (pc = "reconcile" /\ SatisfiesPins(envStart, manifest)) => InstallCalls(log) = 0

(***************************************************************************)
(* C10, amended: a run that starts in an environment where every package   *)
(* the manifest names is installed, at the pinned version where one is     *)
(* pinned, issues no install invocation.                                   *)
(***************************************************************************)
C10_ManifestSatisfiedNoInstalls ==
    (pc = "reconcile" /\ SatisfiesManifest(envStart, manifest)) => InstallCalls(log) = 0

C10_Witness ==
    /\ RunComplete
    /\ Len(manifest) >= 2
    /\ SatisfiesManifest(envStart, manifest)
    /\ \E i \in 1..Len(manifest) : EntryPin(manifest[i]) # None
    /\ \E i \in 1..Len(manifest) : EntryPin(manifest[i]) = None

(***************************************************************************)
(* Vocabulary of the properties about the end of a process.                *)
(***************************************************************************)
\* In the step at hand the running process is killed.
KilledNext == IF parent THEN childStatus' = "killed" ELSE status' = "killed"

\* The exit code with which the running process ends in the step at hand.
EndCodeNext == IF parent THEN childStatus' ELSE status'

\* In the step at hand an Install-mode pass ends by itself.
InstallPassEnds ==
    /\ proc = "bin"
    /\ pc \in Range(StageOrder)
    /\ proc' # "bin"
    /\ ~KilledNext

LayoutComplete(f) == \A file \in LayoutFiles : f[file] # Absent

Count(step) == Cardinality({i \in 1..Len(trace) : trace[i] = step})

(***************************************************************************)
(* C11: whatever the install directory holds, every Install-mode run of    *)
(* the compiled binary ends with the binary, the icon, both descriptors,   *)
(* both scripts and the marker present, and a run that finds this layout   *)
(* is Launch mode and leaves it unchanged.                                 *)
(***************************************************************************)
C11_InstallRunsConverge ==
    [][ /\ InstallPassEnds => LayoutComplete(fs')
        /\ (proc = "bin" /\ pc = "main" /\ LayoutComplete(fs) /\ ~KilledNext)
              => (pc' = "start_app_and_close" /\ fs' = fs) ]_vars

(***************************************************************************)
(* C12: an Install-mode pass does not error, the first time or again, and  *)
(* leaves both descriptor files with the same content every time.          *)
(***************************************************************************)
C12_RestagingIdentical ==
    [][ InstallPassEnds =>
           /\ EndCodeNext = "exit0"
           /\ fs'["desktop"] = DesktopContent
           /\ fs'["menu"] = fs'["desktop"] ]_vars

(***************************************************************************)
(* C13: the file manager is opened at most once per invocation, only after *)
(* the marker was written, never when noopen was given to the binary or to *)
(* the source process that built and started it, and exactly once in a     *)
(* pass that wrote the marker and ended when noopen was not given.         *)
(***************************************************************************)
C13_FileManagerOnceUnlessNoopen ==
    /\ Count("xdg-open") <= 1
    /\ "noopen" \in (argv.src \cup argv.bin) => Count("xdg-open") = 0
    /\ \A i \in 1..Len(trace) :
          trace[i] = "xdg-open"
             => \E j \in 1..(i - 1) : trace[j] = "save_installed_file"
    /\ ( /\ proc # "bin"
         /\ Performed("save_installed_file")
         /\ ~(status = "killed" \/ (Performed("reinvoke") /\ childStatus = "killed"))
         /\ "noopen" \notin (argv.src \cup argv.bin) )
          => Count("xdg-open") = 1

C13_Witness ==
    /\ proc = "none"
    /\ status = "exit0"
    /\ "noopen" \in argv.src
    /\ Performed("reinvoke")
    /\ Performed("finalize_installation")

(***************************************************************************)
(* C14, as claimed: a failed install of the build-tool package does not    *)
(* end the process; control goes on to install_dependencies.               *)
(***************************************************************************)
C14_BuildToolFailureNotFatal ==
    [][ (pc = "install_pyinstaller" /\ ~KilledNext) => pc' = "install_dependencies" ]_vars

(***************************************************************************)
(* C14, amended: a failed install of the build-tool package, like a failed *)
(* creation of the build environment, ends the process at that step with a *)
(* non-zero status; no reconciliation and no build follow.                 *)
(***************************************************************************)
C14_ProvisionerFailuresFatal ==
    \A i \in 1..Len(trace) :
        trace[i] = "CalledProcessError"
           => /\ i = Len(trace)
              /\ i > 1
              /\ trace[i - 1] \in {"venv", "install_pyinstaller"}
              /\ proc = "none"
              /\ status = "exit1"
              /\ ~Performed("install_dependencies")
              /\ ~Performed("pyinstaller")

C14_Witness ==
    /\ Len(trace) >= 2
    /\ trace[Len(trace)] = "CalledProcessError"
    /\ trace[Len(trace) - 1] = "install_pyinstaller"
    /\ proc = "none"
    /\ status = "exit1"

(***************************************************************************)
(* C15: reconciliation handles every manifest entry exactly once and in    *)
(* manifest order whatever the installs answer; from the loop control goes *)
(* only to the next entry or, after the last one, to the Build Executor,   *)
(* and it does get there.                                                  *)
(***************************************************************************)
C15_EveryEntryInOrder ==
    /\ [](pc = "reconcile"
            => /\ Len(log) = idx - 1
               /\ idx <= Len(manifest) + 1
               /\ \A k \in 1..Len(log) : log[k].entry = k)
    /\ [][ pc = "reconcile"
             => /\ proc' = "src"
                /\ pc' \in {"reconcile", "compile_application"}
                /\ pc' = "compile_application" => Len(log) = Len(manifest) ]_vars
    /\ (pc = "reconcile" ~> pc = "compile_application")

C15_Witness ==
    /\ RunComplete
    /\ Len(log) >= 2
    /\ Len(log[1].calls) = 2
    /\ ~log[1].calls[1].ok
    /\ ~log[1].calls[2].ok

\* The reconciler with the scheduling of a sequential program: a process that
\* can take its next step takes it.
SpecReconFair == InitRecon /\ [][NextRecon]_vars /\ WF_vars(NextRecon)

(***************************************************************************)
(* C16: with a required build input missing, the process ends with a       *)
(* non-zero status in check_required_files: no environment is created, no  *)
(* package installed, nothing compiled, the marker is not deleted and the  *)
(* binary is not re-invoked.                                               *)
(***************************************************************************)
C16_MissingInputsExitFirst ==
    (Performed("check_required_files") /\ ~wd.required)
        => /\ proc = "none"
           /\ status = "exit1"
           /\ trace[Len(trace)] = "check_required_files"
           /\ Range(trace) \cap (BuildSteps \ {"check_required_files"}) = {}
           /\ Range(trace) \cap StagingSteps = {}

C16_Witness ==
    /\ Performed("check_required_files")
    /\ ~wd.required
    /\ IsFile("marker")
    /\ wd.venv

(***************************************************************************)
(* C17: the copy step leaves a binary at the install location and goes on  *)
(* to the next staging step, wherever the running executable lives.        *)
(***************************************************************************)
C17_CopyLeavesBinary ==
    [][ (proc = "bin" /\ pc = "copy_files" /\ ~KilledNext)
           => /\ fs'["bin"] # Absent
              /\ proc' = "bin"
              /\ pc' = "create_desktop_file" ]_vars

(***************************************************************************)
(* C18: after a build the tool reported as successful, ./NordVPN-GUI is    *)
(* the artifact of that build or absent, never one of an earlier build,    *)
(* and the binary that is re-invoked is the artifact of that build.        *)
(***************************************************************************)
C18_NoStaleArtifact ==
    /\ pc = "after_compile" => wd.dest \in {Absent, "fresh"}
    /\ Performed("reinvoke") => wd.dest = "fresh"

C18_Witness ==
    /\ pc = "after_compile"
    /\ Performed("unlink dest")
    /\ wd.dest = Absent

(***************************************************************************)
(* C19: a source process is never at a staging step or in Launch mode; of  *)
(* the InstallationLayout it changes nothing but the marker, which it only *)
(* deletes; after the binary it started has ended, it ends.                *)
(***************************************************************************)
C19_SourceNeverStages ==
    /\ [](proc = "src" => pc \notin (Range(StageOrder) \cup {"start_app_and_close"}))
    /\ [][ proc = "src"
             => /\ installDir' = installDir
                /\ \A f \in LayoutFiles \ {"marker"} : fs'[f] = fs[f]
                /\ fs'["marker"] \in {fs["marker"], Absent}
                /\ pc = "reinvoke_return" => proc' = "none" ]_vars

C19_Witness ==
    /\ proc = "none"
    /\ status = "exit1"
    /\ Performed("reinvoke")
    /\ Performed("copy_files")
    /\ childStatus = "killed"

====
